---------------------------- MODULE Spec2Model ----------------------------
(***************************************************************************)
(* Model of algosdk/source_map.py: the Base64 VLQ codec, the coarse        *)
(* pc -> line decoder (SourceMap), the fine decoder / encoder              *)
(* (MJPSourceMap) and the chunk based FunctionalSourceMapper.              *)
(*                                                                         *)
(* Strings that the code indexes byte by byte (the "mappings" string and   *)
(* VLQ tokens) are sequences of ASCII byte values.  Source and target      *)
(* texts are sequences of one-character strings, "\n" being the only line  *)
(* break that occurs in them.                                              *)
(***************************************************************************)
EXTENDS Integers, Sequences, FiniteSets, TLC

VARIABLES
    values,     \* VLQ driver: the integers handed to _base64vlq_encode
    token,      \* VLQ driver: the token _base64vlq_encode returned
    decoded,    \* VLQ driver: what _base64vlq_decode made of the token
    wire,       \* the wire record handed to the decoders
    args,       \* the other arguments of MJPSourceMap.from_json
    stage,      \* which call of the decode / encode / lookup sequence was made last
    coarse_map, \* result of SourceMap(wire)
    fine_map,   \* result of MJPSourceMap.from_json(wire, ...)
    encoded,    \* result of fine_map.to_json()
    redecoded,  \* result of MJPSourceMap.from_json(encoded)
    looked,     \* the last fine[l, c] lookup and its result
    bounds,     \* the end columns of the fine entries, and how often they were inferred
    self_mapper,    \* the left operand of *, built by from_chunks or by *
    other_mapper,   \* the right operand of *, built by from_chunks
    product,        \* the result of self_mapper * other_mapper
    composed,       \* how many compositions led to self_mapper
    built,      \* the last SourceMapping(...) construction and its outcome
    chunked,    \* the last coarse_map.get_chunks_with_source(teal) call and its result
    asked       \* the last get_line_for_pc / get_pcs_for_line calls and their results

vlqvars == <<values, token, decoded>>
mapvars == <<wire, args, stage, coarse_map, fine_map, encoded, redecoded, looked,
             bounds>>
fsmvars == <<self_mapper, other_mapper, product, composed>>
entvars == <<built>>
idxvars == <<chunked, asked>>
vars == <<vlqvars, mapvars, fsmvars, entvars, idxvars>>

-----------------------------------------------------------------------------
(* Bounds of the VLQ driver *)

MaxValues == 2      \* longest integer sequence encoded at once
MaxMag == 17        \* small magnitudes: one and two 5-bit groups
BigMag == 600       \* a magnitude that needs three 5-bit groups

(* Bounds of the decoder driver *)

MaxTokens == 3      \* most segment tokens in one mappings string
MaxLine == 1        \* lookups are made at generated lines 0..MaxLine
MaxCol == 4         \* and at generated columns 0..MaxCol

(* Bounds of the coarse index driver *)

MaxGroups == 3      \* most ';'-separated groups in a mappings string it decodes

(* Bounds of the mapper driver *)

MaxChunks == 2      \* longest chunk list handed to from_chunks
MaxCompose == 2     \* longest chain of compositions

-----------------------------------------------------------------------------
(* Python helpers *)

\* Optional values: None is the empty tuple, a present value x is <<x>>
None == <<>>
Some(x) == <<x>>

\* the err field of a call that raised nothing
NoErr == "ok"

abs(v) == IF v < 0 THEN 0 - v ELSE v

\* list[i] with Python's zero based index; negative indexes count from the end
PyInRange(list, i) == (0 - Len(list)) <= i /\ i < Len(list)

PyIndex(list, i) == IF i < 0 THEN list[Len(list) + i + 1] ELSE list[i + 1]

-----------------------------------------------------------------------------
(* The Base64 VLQ codec *)

b64chars ==
    [i \in 1..26 |-> 64 + i] \o [i \in 1..26 |-> 96 + i]
        \o [i \in 1..10 |-> 47 + i] \o <<43, 47>>

\* _b64table[b] for a byte b <= max(_b64chars); -1 where b is no alphabet byte
b64table ==
    [b \in 0..122 |->
        IF \E i \in 1..64 : b64chars[i] = b
        THEN (CHOOSE i \in 1..64 : b64chars[i] = b) - 1
        ELSE -1]

shiftsize == 5
flag == 32
mask == 31

\* v & mask and v & flag of a Python int (two's complement of infinite width)
AndMask(v) == v % (mask + 1)
HasFlag(v) == (v \div flag) % 2 = 1

RECURSIVE Pow2(_)
\* 1 << n
Pow2(n) == IF n = 0 THEN 1 ELSE 2 * Pow2(n - 1)

RECURSIVE vlq_decode_loop(_, _, _, _, _)
\* the for loop of _base64vlq_decode from byte i on
vlq_decode_loop(bytes, i, shift, value, results) ==
    IF i > Len(bytes) THEN [err |-> NoErr, val |-> results]
    ELSE IF bytes[i] > 127 THEN [err |-> "UnicodeEncodeError", val |-> <<>>]
    ELSE IF bytes[i] \notin DOMAIN b64table THEN [err |-> "IndexError", val |-> <<>>]
    ELSE LET v == b64table[bytes[i]]
             value2 == value + AndMask(v) * Pow2(shift)
         IN IF HasFlag(v)
            THEN vlq_decode_loop(bytes, i + 1, shift + shiftsize, value2, results)
            ELSE vlq_decode_loop(bytes, i + 1, 0, 0,
                     Append(results,
                            (value2 \div 2) * (IF value2 % 2 = 1 THEN -1 ELSE 1)))

base64vlq_decode(vlqval) == vlq_decode_loop(vlqval, 1, 0, 0, <<>>)

RECURSIVE vlq_encode_groups(_)
\* the while loop of _base64vlq_encode on the sign-tagged value v
vlq_encode_groups(v) ==
    LET toencode == AndMask(v)
        rest == v \div (mask + 1)
    IN IF rest = 0 THEN <<toencode>>
       ELSE <<toencode + flag>> \o vlq_encode_groups(rest)

\* the sign bit left out
vlq_sign_tag_unsigned(v) == abs(v) * 2

\* v = (abs(v) << 1) | int(v < 0)
vlq_sign_tag(v) == abs(v) * 2 + (IF v < 0 THEN 1 ELSE 0)

RECURSIVE base64vlq_encode(_)
base64vlq_encode(vals) ==
    IF vals = <<>> THEN <<>>
    ELSE [k \in DOMAIN vlq_encode_groups(vlq_sign_tag(Head(vals))) |->
             b64chars[vlq_encode_groups(vlq_sign_tag(Head(vals)))[k] + 1]]
         \o base64vlq_encode(Tail(vals))

-----------------------------------------------------------------------------
(* str.split, str.splitlines, str.join and slices *)

SEMI == 59      \* ord(";")
COMMA == 44     \* ord(",")
NL == "\n"

RECURSIVE SplitFrom(_, _, _, _)
SplitFrom(s, sep, i, cur) ==
    IF i > Len(s) THEN <<cur>>
    ELSE IF s[i] = sep THEN <<cur>> \o SplitFrom(s, sep, i + 1, <<>>)
    ELSE SplitFrom(s, sep, i + 1, Append(cur, s[i]))

\* s.split(sep): always one piece more than there are separators
Split(s, sep) == SplitFrom(s, sep, 1, <<>>)

\* s.splitlines(): like split("\n"), but a final line break opens no new line
splitlines(s) ==
    LET parts == Split(s, NL)
    IN IF parts[Len(parts)] = <<>> THEN SubSeq(parts, 1, Len(parts) - 1) ELSE parts

RECURSIVE JoinWith(_, _)
\* sep.join(parts)
JoinWith(sep, parts) ==
    IF parts = <<>> THEN <<>>
    ELSE IF Len(parts) = 1 THEN parts[1]
    ELSE parts[1] \o <<sep>> \o JoinWith(sep, Tail(parts))

\* s[k:]
PySliceFrom(s, k) ==
    LET start == IF k < 0 THEN (IF Len(s) + k < 0 THEN 0 ELSE Len(s) + k)
                 ELSE (IF k > Len(s) THEN Len(s) ELSE k)
    IN SubSeq(s, start + 1, Len(s))

\* bool(x) of a list, a string or an Optional of them
Truthy(x) == x # <<>>

-----------------------------------------------------------------------------
(* SourceMap: the coarse pc -> line index *)

\* newer versions let through
VersionAtLeast(version) == version >= 3

\* version != 3 raises
VersionOk(version) == version = 3

\* the second integer (the source index delta) taken for the line delta
decode_int_value_second(value) ==
    LET d == base64vlq_decode(value)
    IN IF d.err # NoErr THEN [err |-> d.err, val |-> None]
       ELSE IF d.val = <<>> THEN [err |-> NoErr, val |-> None]
       ELSE IF Len(d.val) < 2 THEN [err |-> "IndexError", val |-> None]
       ELSE [err |-> NoErr, val |-> Some(d.val[2])]

\* _decode_int_value: the third integer of the token, None for an empty token
decode_int_value(value) ==
    LET d == base64vlq_decode(value)
    IN IF d.err # NoErr THEN [err |-> d.err, val |-> None]
       ELSE IF d.val = <<>> THEN [err |-> NoErr, val |-> None]
       ELSE IF Len(d.val) < 3 THEN [err |-> "IndexError", val |-> None]
       ELSE [err |-> NoErr, val |-> Some(d.val[3])]

RECURSIVE coarse_lines(_, _, _)
\* the loop over pc_list; the result lists last_line for index 0, 1, ...
coarse_lines(pc_list, i, last_line) ==
    IF i > Len(pc_list) THEN <<>>
    ELSE LET line == IF pc_list[i].val # None
                     THEN last_line + pc_list[i].val[1] ELSE last_line
         IN <<line>> \o coarse_lines(pc_list, i + 1, line)

\* the list of a line started anew by every index instead of appended to
pcs_of_line_restarted(lines, line) ==
    LET all == SelectSeq([k \in 1..Len(lines) |-> k - 1],
                         LAMBDA pc : lines[pc + 1] = line)
    IN <<all[Len(all)]>>

\* the indexes that map to line, in the order they were appended
pcs_of_line(lines, line) ==
    SelectSeq([k \in 1..Len(lines) |-> k - 1], LAMBDA pc : lines[pc + 1] = line)

CoarseFail(e, where) ==
    [err |-> e, at |-> where, split |-> where # "version",
     pc_to_line |-> <<>>, line_to_pc |-> <<>>]

\* SourceMap.__init__
SourceMap_init(source_map) ==
    IF ~VersionOk(source_map.version)
    THEN CoarseFail("SourceMapVersionError", "version")
    ELSE LET raw == Split(source_map.mappings, SEMI)
             pc_list == [i \in 1..Len(raw) |-> decode_int_value(raw[i])]
             bad == {i \in 1..Len(raw) : pc_list[i].err # NoErr}
         IN IF bad # {}
            THEN CoarseFail(pc_list[CHOOSE i \in bad : \A j \in bad : i <= j].err,
                            "segment")
            ELSE LET lines == coarse_lines(pc_list, 1, 0)
                 IN [err |-> NoErr, at |-> "done", split |-> TRUE,
                     pc_to_line |-> [pc \in 0..(Len(lines) - 1) |-> lines[pc + 1]],
                     line_to_pc |-> [l \in {lines[k] : k \in 1..Len(lines)} |->
                                        pcs_of_line(lines, l)]]

\* get_line_for_pc
get_line_for_pc(sm, pc) ==
    IF pc \in DOMAIN sm.pc_to_line THEN Some(sm.pc_to_line[pc]) ELSE None

\* get_pcs_for_line
get_pcs_for_line(sm, line) ==
    IF line \in DOMAIN sm.line_to_pc THEN Some(sm.line_to_pc[line]) ELSE None

-----------------------------------------------------------------------------
(* SourceMapping and MJPSourceMap.from_json *)

EmptyMap == [k \in {} |-> None]

\* entries[key] = entry
Put(entries, key, entry) ==
    [k \in DOMAIN entries \cup {key} |-> IF k = key THEN entry ELSE entries[k]]

\* the check of the name left out
SourceMapping_post_init_no_name(m) ==
    IF m.source # None /\ (m.source_line = None \/ m.source_column = None)
    THEN "TypeError"
    ELSE NoErr

\* SourceMapping.__post_init__: the error it raises, NoErr when it accepts
SourceMapping_post_init(m) ==
    IF m.source # None /\ (m.source_line = None \/ m.source_column = None)
    THEN "TypeError"
    ELSE IF m.name # None /\ m.source = None THEN "TypeError"
    ELSE NoErr

\* SourceMapping(line=..., column=...) with every other field at its default
SourceMapping(line, column) ==
    [line |-> line, column |-> column, source |-> None, source_line |-> None,
     source_column |-> None, name |-> None, source_extract |-> None,
     target_extract |-> None, source_content |-> None]

FineFail(e, where) ==
    [err |-> e, at |-> where, file |-> None, source_root |-> None,
     entries |-> EmptyMap, index |-> <<>>, nsegments |-> 0]

\* One segment of generated line gline: the body of the inner for loop.
\* st carries the running counters, the entries and the index built so far.
from_json_segment(ctx, st, gline, tok) ==
    LET d == base64vlq_decode(tok)
        bad(e) == [st EXCEPT !.err = e]
    IN IF d.err # NoErr THEN bad(d.err)
       ELSE IF d.val = <<>> THEN bad("ValueError")
       ELSE
       LET gcol == st.gcol + d.val[1]
           ref == Tail(d.val)
           plain == SourceMapping(gline, gcol)
           store(entry, spos, sline, scol, npos) ==
               IF SourceMapping_post_init(entry) # NoErr
               THEN bad(SourceMapping_post_init(entry))
               ELSE [st EXCEPT !.gcol = gcol, !.spos = spos, !.sline = sline,
                               !.scol = scol, !.npos = npos,
                               !.nsegments = @ + 1,
                               !.entries = Put(@, <<gline, gcol>>, entry),
                               !.index[gline + 1] = Append(@, gcol)]
       IN IF Len(ref) < 3
          THEN store(plain, st.spos, st.sline, st.scol, st.npos)
          ELSE
          LET spos == st.spos + ref[1]
              sline == st.sline + ref[2]
              scol == st.scol + ref[3]
              namedelta == SubSeq(ref, 4, Len(ref))
              hascont == Len(ctx.sp_conts) > spos
              scont == IF hascont THEN Some(PyIndex(ctx.sp_conts, spos)) ELSE None
              useSrc == hascont /\ Truthy(PyIndex(ctx.sp_conts, spos))
              useTgt == Truthy(ctx.tcont) /\ Truthy(ctx.tcont[1])
              hasfile == spos < Len(ctx.source_files)
              npos == IF namedelta # <<>> THEN st.npos + namedelta[1] ELSE st.npos
          IN IF hascont /\ ~PyInRange(ctx.sp_conts, spos) THEN bad("IndexError")
             ELSE IF useSrc /\ ~PyInRange(scont[1], sline) THEN bad("IndexError")
             ELSE IF useTgt /\ ~PyInRange(ctx.tcont[1], gline) THEN bad("IndexError")
             ELSE IF hasfile /\ ~PyInRange(ctx.source_files, spos)
                  THEN bad("IndexError")
             ELSE IF namedelta # <<>> /\ ~PyInRange(ctx.names, npos)
                  THEN bad("IndexError")
             ELSE store(
                 [plain EXCEPT
                     !.source = IF hasfile THEN Some(PyIndex(ctx.source_files, spos))
                                ELSE None,
                     !.source_line = Some(sline),
                     !.source_column = Some(scol),
                     !.source_content = scont,
                     !.source_extract =
                         IF useSrc
                         THEN Some(PySliceFrom(PyIndex(scont[1], sline), scol))
                         ELSE None,
                     !.target_extract =
                         IF useTgt
                         THEN Some(PySliceFrom(PyIndex(ctx.tcont[1], gline), gcol))
                         ELSE None,
                     !.name = IF namedelta # <<>>
                              THEN Some(PyIndex(ctx.names, npos)) ELSE None],
                 spos, sline, scol, npos)

RECURSIVE from_json_segments(_, _, _, _, _)
\* the inner for loop over vlqs.split(",")
from_json_segments(ctx, st, gline, toks, i) ==
    IF i > Len(toks) \/ st.err # NoErr THEN st
    ELSE from_json_segments(ctx, from_json_segment(ctx, st, gline, toks[i]),
                            gline, toks, i + 1)

RECURSIVE from_json_lines(_, _, _, _)
\* the outer for loop over smap["mappings"].split(";")
from_json_lines(ctx, st, groups, g) ==
    IF g > Len(groups) \/ st.err # NoErr THEN st
    ELSE LET opened == [st EXCEPT !.index = Append(@, <<>>), !.gcol = 0]
         IN IF groups[g] = <<>>
            THEN from_json_lines(ctx, opened, groups, g + 1)
            ELSE from_json_lines(ctx,
                     from_json_segments(ctx, opened, g - 1,
                                        Split(groups[g], COMMA), 1),
                     groups, g + 1)

\* MJPSourceMap.from_json(smap, sources, source_files, target)
from_json(smap, sources, source_files, target) ==
    IF ~VersionOk(smap.version) THEN FineFail("ValueError", "version")
    ELSE
    LET jsource_files == smap.sources
        given == Truthy(source_files) /\ Truthy(source_files[1])
        files == IF ~(given \/ Truthy(jsource_files)) THEN <<"unknown">>
                 ELSE IF ~given THEN jsource_files
                 ELSE source_files[1]
        contents == IF smap.sourcesContent = None THEN sources
                    ELSE smap.sourcesContent[1]
    IN IF \E i \in 1..Len(contents) : contents[i] = None
       THEN FineFail("AttributeError", "contents")
       ELSE
       LET ctx == [source_files |-> files,
                   names |-> smap.names,
                   sp_conts |-> [i \in 1..Len(contents) |-> splitlines(contents[i][1])],
                   tcont |-> IF Truthy(target) /\ Truthy(target[1])
                             THEN Some(splitlines(target[1])) ELSE None]
           st0 == [err |-> NoErr, entries |-> EmptyMap, index |-> <<>>,
                   spos |-> 0, npos |-> 0, sline |-> 0, scol |-> 0, gcol |-> 0,
                   nsegments |-> 0]
           st == from_json_lines(ctx, st0, Split(smap.mappings, SEMI), 1)
       IN IF st.err # NoErr THEN FineFail(st.err, "segment")
          ELSE [err |-> NoErr, at |-> "done", file |-> smap.file,
                source_root |-> smap.sourceRoot, entries |-> st.entries,
                index |-> st.index, nsegments |-> st.nsegments]

-----------------------------------------------------------------------------
(* MJPSourceMap.to_json *)

\* autoindex: the id of key in the first-use order kept in the list ids
AutoIndex(ids, key) ==
    IF \E i \in 1..Len(ids) : ids[i] = key
    THEN (CHOOSE i \in 1..Len(ids) : ids[i] = key) - 1
    ELSE Len(ids)

Intern(ids, key) ==
    IF \E i \in 1..Len(ids) : ids[i] = key THEN ids ELSE Append(ids, key)

\* One column of generated line gline: the body of the inner for loop
to_json_column(m, st, gline, col) ==
    LET entry == m.entries[<<gline, col>>]
        gcd == col - st.gcol
    IN IF entry.source = None
       THEN [st EXCEPT !.gcol = col,
                       !.mapping = Append(@, base64vlq_encode(<<gcd>>))]
       ELSE
       LET sid == AutoIndex(st.sources, entry.source[1])
           ds == <<gcd, sid - st.spos, entry.source_line[1] - st.sline,
                   entry.source_column[1] - st.scol>>
           spos == st.spos + ds[2]
           c == entry.source_content
           content == IF spos = Len(st.content)
                      THEN Append(st.content,
                                  IF Truthy(c) /\ Truthy(c[1])
                                  THEN Some(JoinWith(NL, c[1])) ELSE None)
                      ELSE st.content
           named == entry.name # None
           nid == IF named THEN AutoIndex(st.names, entry.name[1]) ELSE st.npos
           ds2 == IF named THEN Append(ds, nid - st.npos) ELSE ds
       IN [st EXCEPT !.gcol = col,
                     !.sources = Intern(@, entry.source[1]),
                     !.spos = spos,
                     !.sline = st.sline + ds[3],
                     !.scol = st.scol + ds[4],
                     !.content = content,
                     !.names = IF named THEN Intern(@, entry.name[1]) ELSE @,
                     !.npos = IF named THEN st.npos + ds2[5] ELSE @,
                     !.mapping = Append(@, base64vlq_encode(ds2))]

RECURSIVE to_json_columns(_, _, _, _, _)
to_json_columns(m, st, gline, cols, i) ==
    IF i > Len(cols) THEN st
    ELSE to_json_columns(m, to_json_column(m, st, gline, cols[i]), gline, cols, i + 1)

RECURSIVE to_json_lines(_, _, _)
\* the outer for loop over enumerate(self._index)
to_json_lines(m, st, g) ==
    IF g > Len(m.index) THEN st
    ELSE LET done == to_json_columns(m, [st EXCEPT !.gcol = 0, !.mapping = <<>>],
                                     g - 1, m.index[g], 1)
         IN to_json_lines(m,
                [done EXCEPT !.mappings = Append(@, JoinWith(COMMA, done.mapping))],
                g + 1)

\* MJPSourceMap.to_json
to_json(m) ==
    LET st0 == [content |-> <<>>, mappings |-> <<>>, sources |-> <<>>,
                names |-> <<>>, spos |-> 0, sline |-> 0, scol |-> 0, npos |-> 0,
                gcol |-> 0, mapping |-> <<>>]
        st == to_json_lines(m, st0, 1)
    IN [version |-> 3, sources |-> st.sources,
        sourcesContent |-> Some(st.content), names |-> st.names,
        mappings |-> JoinWith(SEMI, st.mappings),
        file |-> m.file, sourceRoot |-> m.source_root]

-----------------------------------------------------------------------------
(* MJPSourceMap.__getitem__ *)

RECURSIVE bisect_loop(_, _, _, _)
bisect_loop(a, x, lo, hi) ==
    IF lo >= hi THEN lo
    ELSE LET mid == (lo + hi) \div 2
         IN IF x < a[mid + 1] THEN bisect_loop(a, x, lo, mid)
            ELSE bisect_loop(a, x, mid + 1, hi)

\* bisect.bisect(a, x), which is bisect_right, on a list of integers
bisect_right(a, x) == bisect_loop(a, x, 0, Len(a))

\* cidx - 1 without the guard for cidx = 0
closest_index_unclamped(cidx) == cidx - 1

\* cidx and cidx - 1
closest_index(cidx) == IF cidx # 0 THEN cidx - 1 ELSE cidx

\* self[l, c]; self[l] is self[l, 0]
getitem(m, l, c) ==
    IF <<l, c>> \in DOMAIN m.entries
    THEN [err |-> NoErr, entry |-> Some(m.entries[<<l, c>>])]
    ELSE IF ~PyInRange(m.index, l) THEN [err |-> "IndexError", entry |-> None]
    ELSE LET cols == PyIndex(m.index, l)
             cidx == bisect_right(cols, c)
             col == PyIndex(cols, closest_index(cidx))
         IN IF cols = <<>> THEN [err |-> "IndexError", entry |-> None]
            ELSE IF <<l, col>> \notin DOMAIN m.entries
            THEN [err |-> "KeyError", entry |-> None]
            ELSE [err |-> NoErr, entry |-> Some(m.entries[<<l, col>>])]

-----------------------------------------------------------------------------
(* Right-bound inference (add_right_bounds / infer_right_bounds) *)

\* the mapped columns of generated line l
MappedColumns(m, l) == { k[2] : k \in { q \in DOMAIN m.entries : q[1] = l } }

\* the inference applied to the lines with a single mapped column as well
add_right_bounds_every_line(m, rb, target) ==
    [k \in DOMAIN m.entries |->
        LET cols == MappedColumns(m, k[1])
            later == { c \in cols : c > k[2] }
            tcont == IF Truthy(target) /\ Truthy(target[1])
                     THEN splitlines(target[1]) ELSE <<>>
        IN IF later # {} THEN Some(CHOOSE c \in later : \A d \in later : c <= d)
           ELSE IF k[1] < Len(tcont) THEN Some(Len(tcont[k[1] + 1]))
           ELSE None]

\* For every generated line with two or more mapped columns each entry's end
\* column becomes the next mapped column of the line; the last one ends at the
\* length of the target line when the target text is known and stays
\* unbounded otherwise.  rb is the table of end columns held so far.
add_right_bounds(m, rb, target) ==
    [k \in DOMAIN m.entries |->
        LET cols == MappedColumns(m, k[1])
            later == { c \in cols : c > k[2] }
            tcont == IF Truthy(target) /\ Truthy(target[1])
                     THEN splitlines(target[1]) ELSE <<>>
        IN IF Cardinality(cols) < 2 THEN rb[k]
           ELSE IF later # {} THEN Some(CHOOSE c \in later : \A d \in later : c <= d)
           ELSE IF k[1] < Len(tcont) THEN Some(Len(tcont[k[1] + 1]))
           ELSE None]

-----------------------------------------------------------------------------
(* Chunk and FunctionalSourceMapper *)

Chunk(source_line_number, source_line, source_col_bounds, target_line_number, target_line, target_col_bounds) ==
    [source_line_number |-> source_line_number, source_line |-> source_line,
     source_col_bounds |-> source_col_bounds,
     target_line_number |-> target_line_number, target_line |-> target_line,
     target_col_bounds |-> target_col_bounds]

\* Chunk.simple
Chunk_simple(source_line_number, source_line, target_line_number, target_line) ==
    Chunk(source_line_number, source_line, <<0, Len(source_line)>>,
          target_line_number, target_line, <<0, Len(target_line)>>)

\* x < y of two (line, column) tuples
TupleLess(x, y) == x[1] < y[1] \/ (x[1] = y[1] /\ x[2] < y[2])

RECURSIVE bisect_tuple_loop(_, _, _, _)
bisect_tuple_loop(a, x, lo, hi) ==
    IF lo >= hi THEN lo
    ELSE LET mid == (lo + hi) \div 2
         IN IF TupleLess(x, a[mid + 1]) THEN bisect_tuple_loop(a, x, lo, mid)
            ELSE bisect_tuple_loop(a, x, mid + 1, hi)

\* bisect.bisect_right(self.index, (line, column))
bisect_right_tuples(a, x) == bisect_tuple_loop(a, x, 0, Len(a))

\* FunctionalSourceMapper.__call__
fsm_call(m, line, column) ==
    LET idx == bisect_right_tuples(m.index, <<line, column>>)
    IN IF 0 <= idx /\ idx < Len(m.index) THEN Some(m.chunks[idx + 1]) ELSE None

\* the indexer of from_chunks: (position in the list, end of the source span)
from_chunks_indexer(chunks) ==
    [i \in 1..Len(chunks) |-> <<i - 1, chunks[i].source_col_bounds[2]>>]

\* FunctionalSourceMapper(indexer, chunks)
FunctionalSourceMapper(indexer, chunks) ==
    [err |-> NoErr, index |-> indexer, chunks |-> chunks]

FsmFail(e) == [err |-> e, index |-> <<>>, chunks |-> <<>>]

\* the index keyed by the chunk's own source line, and nothing asserted
from_chunks_by_source_line(chunks) ==
    FunctionalSourceMapper(
        [i \in 1..Len(chunks) |->
            <<chunks[i].source_line_number, chunks[i].source_col_bounds[2]>>],
        chunks)

\* FunctionalSourceMapper.from_chunks, its three assertions included
from_chunks(chunks) ==
    LET indexer == from_chunks_indexer(chunks)
        fsm == FunctionalSourceMapper(indexer, chunks)
    IN IF Len(chunks) # Len(indexer) THEN FsmFail("AssertionError")
       ELSE IF ~(\A i \in 1..(Len(indexer) - 1) : TupleLess(indexer[i], indexer[i + 1]))
       THEN FsmFail("AssertionError")
       ELSE IF ~(\A i \in 1..Len(indexer) :
                   fsm_call(fsm, indexer[i][1], indexer[i][2] - 1) = Some(chunks[i]))
       THEN FsmFail("AssertionError")
       ELSE fsm

\* the target line taken from other's chunk
mul_chunk_other_target(schunk, ochunk) ==
    Chunk(ochunk.source_line_number, ochunk.source_line, ochunk.source_col_bounds,
          schunk.target_line_number, ochunk.target_line, schunk.source_col_bounds)

\* the chunk __mul__ appends for schunk, given other's answer ochunk
mul_chunk(schunk, ochunk) ==
    Chunk(ochunk.source_line_number, ochunk.source_line, ochunk.source_col_bounds,
          schunk.target_line_number, schunk.target_line, schunk.source_col_bounds)

\* FunctionalSourceMapper.__mul__
fsm_mul(self, other) ==
    LET found == [i \in 1..Len(self.chunks) |->
                     fsm_call(other, self.chunks[i].source_line_number,
                              self.chunks[i].source_col_bounds[1])]
    IN IF \E i \in 1..Len(found) : found[i] = None THEN FsmFail("AssertionError")
       ELSE from_chunks([i \in 1..Len(found) |->
                            mul_chunk(self.chunks[i], found[i][1])])

\* FunctionalSourceMapper.generate_target
generate_target(chunks) ==
    JoinWith(NL, [i \in 1..Len(chunks) |-> chunks[i].target_line])

\* FunctionalSourceMapper.target
fsm_target(m) == generate_target(m.chunks)

-----------------------------------------------------------------------------
(* SourceMap.get_chunks_with_source *)

DigitChars == <<"0", "1", "2", "3", "4", "5", "6", "7", "8", "9">>

RECURSIVE str(_)
\* str(n) of an integer
str(n) ==
    IF n < 0 THEN <<"-">> \o str(0 - n)
    ELSE IF n < 10 THEN <<DigitChars[n + 1]>>
    ELSE str(n \div 10) \o <<DigitChars[(n % 10) + 1]>>

\* f"PC[{pc}]"
PcLabel(pc) == <<"P", "C", "[">> \o str(pc) \o <<"]">>

\* max(self.pc_to_line.values())
max_line(sm) ==
    CHOOSE l \in { sm.pc_to_line[pc] : pc \in DOMAIN sm.pc_to_line } :
        \A pc \in DOMAIN sm.pc_to_line : sm.pc_to_line[pc] <= l

ChunksFail(e) == [err |-> e, chunks |-> <<>>]

\* SourceMap.get_chunks_with_source: the items of pc_to_line come in the
\* order of insertion, pc 0, 1, 2, ...
get_chunks_with_source(sm, teal) ==
    LET lines == Split(teal, NL)
        n == Cardinality(DOMAIN sm.pc_to_line)
    IN IF ~(max_line(sm) < Len(lines)) THEN ChunksFail("AssertionError")
       ELSE IF \E pc \in DOMAIN sm.pc_to_line :
                  ~PyInRange(lines, sm.pc_to_line[pc])
       THEN ChunksFail("IndexError")
       ELSE [err |-> NoErr,
             chunks |-> [i \in 1..n |->
                 Chunk_simple(sm.pc_to_line[i - 1],
                              PyIndex(lines, sm.pc_to_line[i - 1]),
                              i - 1, PcLabel(i - 1))]]

-----------------------------------------------------------------------------
(* VLQ driver: encode a sequence of integers, then decode the token *)

VlqValues == ((0 - MaxMag)..MaxMag) \cup {0 - BigMag, BigMag}

VlqIdle ==
    /\ values = <<>>
    /\ token = <<>>
    /\ decoded = [err |-> NoErr, val |-> <<>>]

VlqInit ==
    /\ values = <<>>
    /\ token = base64vlq_encode(<<>>)
    /\ decoded = base64vlq_decode(token)

VlqRoundTrip(x) ==
    /\ Len(values) < MaxValues
    /\ values' = Append(values, x)
    /\ token' = base64vlq_encode(values')
    /\ decoded' = base64vlq_decode(token')

-----------------------------------------------------------------------------
(* Decoder driver: a wire record is decoded by both decoders; the fine map      *)
(* is then re-encoded and decoded again, or looked up.                      *)

\* Segments as integer tuples, encoded by _base64vlq_encode; "" is the empty
\* token (an empty line group, or nothing between two commas)
CoreSegments ==
    { <<2, 0, 1, 0>>,           \* column +2, source line +1
      <<0, 0, 0, 0>>,           \* the same column and source position again
      <<-1, 0, 0, 1>>,          \* column -1, source column +1
      <<>> }

OddSegments ==
    { <<1>>,                    \* a segment without source
      <<1, 1, 0, 0>>,           \* next source file
      <<1, 0, 0, 0, 0>>,        \* a named segment
      <<1, 1, 0, 0, 1>>,        \* next source file, next name
      <<0, 0, 1>>,              \* three fields
      <<0, 0, 1, 0, 0, 0>> }    \* six fields

\* Tokens given byte by byte: "EACA!" and "{"
RawTokens == { <<69, 65, 67, 65, 33>>, <<123>> }

CoreTokens == { base64vlq_encode(seg) : seg \in CoreSegments }
OddTokens == { base64vlq_encode(seg) : seg \in OddSegments } \cup RawTokens

Separators == {SEMI, COMMA}

RECURSIVE CoreStrings(_)
\* the strings of exactly k core tokens joined by ";" or ","
CoreStrings(k) ==
    IF k <= 1 THEN CoreTokens
    ELSE { m \o <<sep>> \o t :
             m \in CoreStrings(k - 1), sep \in Separators, t \in CoreTokens }

\* what may stand before and after an odd token: k core tokens and a separator
Before(k) ==
    IF k = 0 THEN { <<>> }
    ELSE { m \o <<sep>> : m \in CoreStrings(k), sep \in Separators }

After(k) ==
    IF k = 0 THEN { <<>> }
    ELSE { <<sep>> \o m : m \in CoreStrings(k), sep \in Separators }

\* every mappings string of at most n tokens, at most one of them odd
MappingsOf(n) ==
    UNION { CoreStrings(k) : k \in 1..n }
        \cup UNION { UNION { { pre \o t \o post :
                                 pre \in Before(i), t \in OddTokens,
                                 post \in After(j) } :
                             j \in 0..(n - 1 - i) } :
                     i \in 0..(n - 1) }

SourceText == <<"x", "y", NL, "z", NL, NL, "w">>
\* a source text that ends with a line break
TealText == <<"x", NL, "y", NL, "z", NL, "w", NL>>
TargetText == <<"a", "b", "c", "d", NL, "e", "f">>

\* The rest of the wire record and of the call
Environments ==
    { [sources |-> <<>>, sourcesContent |-> None, file |-> None,
       call_sources |-> <<>>, target |-> None],
      [sources |-> <<"a.teal">>, sourcesContent |-> None, file |-> Some("out.js"),
       call_sources |-> <<Some(SourceText)>>, target |-> None],
      [sources |-> <<"a.teal", "b.teal">>,
       sourcesContent |-> Some(<<Some(SourceText), Some(<<NL>>)>>),
       file |-> Some("out.js"), call_sources |-> <<>>,
       target |-> Some(TargetText)],
      [sources |-> <<>>, sourcesContent |-> None, file |-> None,
       call_sources |-> <<Some(TealText)>>, target |-> None] }

\* A record of another version is tried with the first call only
Versions(env) ==
    IF env.sources = <<>> /\ env.call_sources = <<>> THEN {2, 3, 4} ELSE {3}

NotRun == [err |-> "not run"]

MapIdle ==
    /\ wire = [version |-> 3]
    /\ args = <<>>
    /\ stage = "idle"
    /\ coarse_map = NotRun
    /\ fine_map = NotRun
    /\ encoded = NotRun
    /\ redecoded = NotRun
    /\ looked = NotRun
    /\ bounds = NotRun

MapInit ==
    /\ \E env \in Environments : \E v \in Versions(env), m \in MappingsOf(MaxTokens) :
          /\ wire = [version |-> v, sources |-> env.sources,
                     names |-> <<"n", "m">>, mappings |-> m,
                     sourcesContent |-> env.sourcesContent,
                     file |-> env.file, sourceRoot |-> None]
          /\ args = [sources |-> env.call_sources, source_files |-> None,
                     target |-> env.target]
    /\ stage = "input"
    /\ coarse_map = NotRun
    /\ fine_map = NotRun
    /\ encoded = NotRun
    /\ redecoded = NotRun
    /\ looked = NotRun
    /\ bounds = NotRun

\* SourceMap(wire)
DecodeCoarse ==
    /\ stage = "input"
    /\ coarse_map' = SourceMap_init(wire)
    /\ stage' = "coarse_map"
    /\ UNCHANGED <<wire, args, fine_map, encoded, redecoded, looked, bounds>>

\* MJPSourceMap.from_json(wire, sources, source_files, target)
DecodeFine ==
    /\ stage = "coarse_map"
    /\ fine_map' = from_json(wire, args.sources, args.source_files, args.target)
    /\ stage' = "fine_map"
    /\ UNCHANGED <<wire, args, coarse_map, encoded, redecoded, looked, bounds>>

\* fine_map.to_json()
Encode ==
    /\ stage = "fine_map"
    /\ fine_map.err = NoErr
    /\ encoded' = to_json(fine_map)
    /\ stage' = "encoded"
    /\ UNCHANGED <<wire, args, coarse_map, fine_map, redecoded, looked, bounds>>

\* MJPSourceMap.from_json(fine_map.to_json())
DecodeAgain ==
    /\ stage = "encoded"
    /\ redecoded' = from_json(encoded, <<>>, None, None)
    /\ stage' = "redecoded"
    /\ UNCHANGED <<wire, args, coarse_map, fine_map, encoded, looked, bounds>>

\* fine_map[l, c]
Lookup(l, c) ==
    /\ stage = "fine_map"
    /\ fine_map.err = NoErr
    /\ looked' = [l |-> l, c |-> c, res |-> getitem(fine_map, l, c)]
    /\ stage' = "lookup"
    /\ UNCHANGED <<wire, args, coarse_map, fine_map, encoded, redecoded, bounds>>

\* fine.add_right_bounds(), up to twice in a row
AddRightBounds ==
    /\ stage \in {"fine_map", "bounds"}
    /\ fine_map.err = NoErr
    /\ LET before == IF stage = "fine_map"
                     THEN [k \in DOMAIN fine_map.entries |-> None] ELSE bounds.now
           times == IF stage = "fine_map" THEN 0 ELSE bounds.times
       IN /\ times < 2
          /\ bounds' = [times |-> times + 1, before |-> before,
                        now |-> add_right_bounds(fine_map, before, args.target)]
    /\ stage' = "bounds"
    /\ UNCHANGED <<wire, args, coarse_map, fine_map, encoded, redecoded, looked>>

-----------------------------------------------------------------------------
(* Coarse index driver: a coarse index is queried and turned into chunks  *)

IdxIdle == chunked = NotRun /\ asked = NotRun

\* The segments of the groups: a source line delta of +1, 0, -1 and +2, a
\* segment without a source position, and the empty group
IndexSegments ==
    { <<0, 0, 1, 0>>, <<0, 0, 0, 0>>, <<0, 0, -1, 0>>, <<2, 0, 2, 1>>, <<1>>, <<>> }

\* a group of two segments is one more token
IndexTokens ==
    { base64vlq_encode(seg) : seg \in IndexSegments }
        \cup { base64vlq_encode(<<0, 0, 1, 0>>) \o <<COMMA>>
                   \o base64vlq_encode(<<1, 0, 0, 0>>) }

RECURSIVE IndexStrings(_)
\* the mappings strings of exactly k groups
IndexStrings(k) ==
    IF k <= 1 THEN IndexTokens
    ELSE { m \o <<SEMI>> \o t : m \in IndexStrings(k - 1), t \in IndexTokens }

\* The texts handed to get_chunks_with_source: "", "x", "x\ny", "x\ny\n"
TealTexts ==
    { <<>>, <<"x">>, <<"x", NL, "y">>, <<"x", NL, "y", NL>> }

IdxInit ==
    /\ \E v \in {2, 3} : \E k \in 1..MaxGroups : \E m \in IndexStrings(k) :
          wire = [version |-> v, sources |-> <<>>, names |-> <<>>, mappings |-> m,
                  sourcesContent |-> None, file |-> None, sourceRoot |-> None]
    /\ args = [sources |-> <<>>, source_files |-> None, target |-> None]
    /\ stage = "input"
    /\ coarse_map = NotRun
    /\ fine_map = NotRun
    /\ encoded = NotRun
    /\ redecoded = NotRun
    /\ looked = NotRun
    /\ bounds = NotRun
    /\ chunked = NotRun
    /\ asked = NotRun

\* coarse_map.get_chunks_with_source(teal)
ChunksWithSource(teal) ==
    /\ stage = "coarse_map"
    /\ coarse_map.err = NoErr
    /\ chunked' = [teal |-> teal, res |-> get_chunks_with_source(coarse_map, teal)]
    /\ stage' = "chunks"
    /\ UNCHANGED <<wire, args, coarse_map, fine_map, encoded, redecoded, looked,
                   bounds, asked>>

\* coarse_map.get_line_for_pc(pc) and coarse_map.get_pcs_for_line(line)
Ask(pc, line) ==
    /\ stage = "coarse_map"
    /\ coarse_map.err = NoErr
    /\ asked' = [pc |-> pc, line |-> line,
                 line_for_pc |-> get_line_for_pc(coarse_map, pc),
                 pcs_for_line |-> get_pcs_for_line(coarse_map, line)]
    /\ stage' = "asked"
    /\ UNCHANGED <<wire, args, coarse_map, fine_map, encoded, redecoded, looked,
                   bounds, chunked>>

-----------------------------------------------------------------------------
(* Entry driver: a SourceMapping is constructed directly, outside a decode *)

EntIdle == built = NotRun

\* The optional fields a caller may pass
SourceArgs == { None, Some("a.teal") }
SourceLineArgs == { None, Some(0), Some(1) }
SourceColumnArgs == { None, Some(0) }
NameArgs == { None, Some("n") }

\* SourceMapping(line, column, source, source_line, source_column, name)
Construct(line, column, source, source_line, source_column, name) ==
    /\ stage = "idle"
    /\ LET m == [SourceMapping(line, column) EXCEPT
                     !.source = source, !.source_line = source_line,
                     !.source_column = source_column, !.name = name]
           e == SourceMapping_post_init(m)
       IN built' = [err |-> e, given |-> m,
                    entry |-> IF e = NoErr THEN Some(m) ELSE None]

-----------------------------------------------------------------------------
(* Mapper driver: two mappers are built from chunk lists and composed; the  *)
(* product may become the left operand of a further composition.           *)

ChunkPool ==
    { Chunk_simple(0, <<"a", "b">>, 0, <<"P", "C", "0">>),
      Chunk_simple(1, <<"c", "d">>, 1, <<"P", "C", "1">>),
      Chunk(0, <<"a", "b">>, <<0, 1>>, 0, <<"x">>, <<0, 1>>),
      Chunk(0, <<"a", "b">>, <<1, 2>>, 1, <<"y">>, <<0, 1>>),
      Chunk(1, <<"c", "d">>, <<0, 2>>, 2, <<"z">>, <<0, 1>>),
      Chunk(2, <<"e", "f">>, <<0, 2>>, 0, <<"w">>, <<0, 1>>) }

RECURSIVE ChunkLists(_)
\* every list of at most n chunks of the pool
ChunkLists(n) ==
    IF n = 0 THEN { <<>> }
    ELSE LET shorter == ChunkLists(n - 1)
         IN shorter \cup { Append(l, c) : l \in shorter, c \in ChunkPool }

FsmIdle ==
    /\ self_mapper = NotRun
    /\ other_mapper = NotRun
    /\ product = NotRun
    /\ composed = 0

FsmInit ==
    /\ \E l \in ChunkLists(MaxChunks) : self_mapper = from_chunks(l)
    /\ \E l \in ChunkLists(MaxChunks) : other_mapper = from_chunks(l)
    /\ product = NotRun
    /\ composed = 0

\* product = self_mapper * other_mapper
Compose ==
    /\ product = NotRun
    /\ self_mapper.err = NoErr
    /\ other_mapper.err = NoErr
    /\ product' = fsm_mul(self_mapper, other_mapper)
    /\ UNCHANGED <<self_mapper, other_mapper, composed>>

\* the product becomes the left operand of the next composition
ComposeFurther ==
    /\ product # NotRun
    /\ product.err = NoErr
    /\ composed + 1 < MaxCompose
    /\ self_mapper' = product
    /\ product' = NotRun
    /\ composed' = composed + 1
    /\ UNCHANGED other_mapper

-----------------------------------------------------------------------------
(* Specifications *)

VlqNext ==
    /\ \E x \in VlqValues : VlqRoundTrip(x)
    /\ UNCHANGED <<mapvars, fsmvars, entvars, idxvars>>

InitVlq == VlqInit /\ MapIdle /\ FsmIdle /\ EntIdle /\ IdxIdle

SpecVlq == InitVlq /\ [][VlqNext]_vars

MapNext ==
    \/ DecodeCoarse /\ UNCHANGED <<vlqvars, fsmvars, entvars, idxvars>>
    \/ DecodeFine /\ UNCHANGED <<vlqvars, fsmvars, entvars, idxvars>>
    \/ Encode /\ UNCHANGED <<vlqvars, fsmvars, entvars, idxvars>>
    \/ DecodeAgain /\ UNCHANGED <<vlqvars, fsmvars, entvars, idxvars>>
    \/ \E l \in 0..MaxLine, c \in 0..MaxCol : Lookup(l, c) /\ UNCHANGED <<vlqvars, fsmvars, entvars, idxvars>>
    \/ AddRightBounds /\ UNCHANGED <<vlqvars, fsmvars, entvars, idxvars>>
    \/ /\ stage = "idle"
       /\ \E line \in 0..MaxLine, column \in 0..MaxCol, source \in SourceArgs,
             source_line \in SourceLineArgs, source_column \in SourceColumnArgs,
             name \in NameArgs :
                 Construct(line, column, source, source_line, source_column, name)
       /\ UNCHANGED <<vlqvars, mapvars, fsmvars, idxvars>>

\* Either a wire record is handed in, or entries are constructed directly
InitMap == (MapInit \/ MapIdle) /\ VlqIdle /\ FsmIdle /\ EntIdle /\ IdxIdle

SpecMap == InitMap /\ [][MapNext]_vars

IdxNext ==
    \/ DecodeCoarse /\ UNCHANGED <<vlqvars, fsmvars, entvars, idxvars>>
    \/ \E teal \in TealTexts :
          ChunksWithSource(teal) /\ UNCHANGED <<vlqvars, fsmvars, entvars>>
    \/ \E pc \in (0 - 1)..MaxGroups, line \in (0 - MaxGroups)..(2 * MaxGroups) :
          Ask(pc, line) /\ UNCHANGED <<vlqvars, fsmvars, entvars>>

InitIdx == IdxInit /\ VlqIdle /\ FsmIdle /\ EntIdle

SpecIdx == InitIdx /\ [][IdxNext]_vars

FsmNext ==
    \/ Compose /\ UNCHANGED <<vlqvars, mapvars, entvars, idxvars>>
    \/ ComposeFurther /\ UNCHANGED <<vlqvars, mapvars, entvars, idxvars>>

InitFsm == FsmInit /\ VlqIdle /\ MapIdle /\ EntIdle /\ IdxIdle

SpecFsm == InitFsm /\ [][FsmNext]_vars

-----------------------------------------------------------------------------
(* Properties of the VLQ codec (SpecVlq) *)

\* C1: decoding the token that encodes x1..xn returns exactly x1..xn, whatever
\* the signs and magnitudes of the integers.
C1_VlqRoundTrip == decoded = [err |-> NoErr, val |-> values]

\* a negative three-group value followed by zero went through the codec
C1_Witness ==
    /\ values = <<0 - BigMag, 0>>
    /\ Len(token) = 4
    /\ decoded.val = values

-----------------------------------------------------------------------------
(* Properties of the decoders (SpecMap) *)

\* the number of segments decoded on the generated lines before line g (1-based)
RECURSIVE SegmentsBefore(_, _)
SegmentsBefore(index, g) ==
    IF g <= 1 THEN 0 ELSE SegmentsBefore(index, g - 1) + Len(index[g - 1])

\* C2: decoding the re-encoded record succeeds and gives the same keys and, for
\* each key, the same source, source line, source column, name and content.
C2_RecordRoundTrip ==
    stage = "redecoded" =>
        /\ redecoded.err = NoErr
        /\ DOMAIN redecoded.entries = DOMAIN fine_map.entries
        /\ \A k \in DOMAIN fine_map.entries :
              LET e == fine_map.entries[k]
                  r == redecoded.entries[k]
              IN /\ r.source = e.source
                 /\ r.source_line = e.source_line
                 /\ r.source_column = e.source_column
                 /\ r.name = e.name
                 /\ r.source_content = e.source_content

\* C6: a lookup returns the entry at the greatest mapped column of the line
\* that is <= c, and fails when the line has no mapped column <= c.
C6_NearestColumn ==
    stage = "lookup" =>
        LET cols == MappedColumns(fine_map, looked.l)
            upto == { x \in cols : x <= looked.c }
        IN IF upto # {}
           THEN looked.res =
                    [err |-> NoErr,
                     entry |-> Some(fine_map.entries[
                         <<looked.l, CHOOSE x \in upto : \A y \in upto : y <= x>>])]
           ELSE looked.res.err # NoErr

\* C6 as amended: an exact key returns its entry; a line without mapped
\* columns fails with IndexError; any other lookup returns an entry of the
\* line: the one at the first listed column when c is below every mapped
\* column of the line, and the one at the greatest mapped column <= c when
\* the line's column list is ascending and holds such a column.
C6_ClosestColumn ==
    stage = "lookup" =>
        LET l == looked.l
            c == looked.c
            res == looked.res
            listed == IF l < Len(fine_map.index) THEN fine_map.index[l + 1] ELSE <<>>
            upto == { i \in 1..Len(listed) : listed[i] <= c }
            ascending == \A i \in 1..(Len(listed) - 1) : listed[i] <= listed[i + 1]
        IN IF <<l, c>> \in DOMAIN fine_map.entries
           THEN res = [err |-> NoErr, entry |-> Some(fine_map.entries[<<l, c>>])]
           ELSE IF listed = <<>> THEN res.err = "IndexError"
           ELSE /\ res.err = NoErr
                /\ res.entry[1].line = l
                /\ res.entry[1] = fine_map.entries[<<l, res.entry[1].column>>]
                /\ upto = {} => res.entry[1].column = listed[1]
                /\ (ascending /\ upto # {}) =>
                      /\ res.entry[1].column <= c
                      /\ \A i \in upto : listed[i] <= res.entry[1].column

\* a lookup below the smallest of two mapped columns returned the first one
C6_Witness ==
    /\ stage = "lookup"
    /\ looked.l < Len(fine_map.index)
    /\ Len(fine_map.index[looked.l + 1]) >= 2
    /\ \A i \in 1..Len(fine_map.index[looked.l + 1]) :
          looked.c < fine_map.index[looked.l + 1][i]
    /\ fine_map.index[looked.l + 1][1] < fine_map.index[looked.l + 1][2]
    /\ looked.res.err = NoErr
    /\ looked.res.entry[1].column = fine_map.index[looked.l + 1][1]

\* C7: a record of another version is rejected by both decoders at the version
\* check: nothing was split or decoded and no table exists.
C7_VersionRejected ==
    wire.version # 3 =>
        /\ coarse_map # NotRun =>
              /\ coarse_map.err = "SourceMapVersionError"
              /\ coarse_map.at = "version"
              /\ ~coarse_map.split
              /\ coarse_map.pc_to_line = <<>>
              /\ coarse_map.line_to_pc = <<>>
        /\ fine_map # NotRun =>
              /\ fine_map.err = "ValueError"
              /\ fine_map.at = "version"
              /\ fine_map.nsegments = 0
              /\ fine_map.entries = EmptyMap
              /\ fine_map.index = <<>>

\* both decoders rejected a version 2 record whose mappings hold a byte that
\* the VLQ table cannot even index
C7_Witness ==
    /\ wire.version = 2
    /\ stage = "fine_map"
    /\ \E i \in 1..Len(wire.mappings) : wire.mappings[i] = 123
    /\ coarse_map.err = "SourceMapVersionError"
    /\ fine_map.err = "ValueError"

C9_CoarseFineAgree ==
    (stage = "fine_map" /\ coarse_map.err = NoErr /\ fine_map.err = NoErr) =>
        \A g \in 1..Len(fine_map.index) : \A j \in 1..Len(fine_map.index[g]) :
            LET k == SegmentsBefore(fine_map.index, g) + j - 1
                e == fine_map.entries[<<g - 1, fine_map.index[g][j]>>]
            IN (e.source_line # None /\ k \in DOMAIN coarse_map.pc_to_line) =>
                   coarse_map.pc_to_line[k] = e.source_line[1]

\* C9 as amended: the coarse offsets number the line groups, empty ones
\* included.  When every line group holds at most one segment and every
\* segment carries a source position, the coarse line of offset k is the
\* source line of the fine entry of generated line k.
C9_CoarseFineAgreePerLine ==
    (/\ stage = "fine_map"
     /\ coarse_map.err = NoErr
     /\ fine_map.err = NoErr
     /\ \A g \in 1..Len(fine_map.index) : Len(fine_map.index[g]) <= 1
     /\ \A k \in DOMAIN fine_map.entries : fine_map.entries[k].source_line # None)
    => \A g \in 1..Len(fine_map.index) :
           Len(fine_map.index[g]) = 1 =>
               /\ (g - 1) \in DOMAIN coarse_map.pc_to_line
               /\ coarse_map.pc_to_line[g - 1] =
                      fine_map.entries[<<g - 1, fine_map.index[g][1]>>].source_line[1]

\* two one-segment line groups around an empty one were decoded by both
C9_Witness ==
    /\ stage = "fine_map"
    /\ coarse_map.err = NoErr
    /\ fine_map.err = NoErr
    /\ Len(fine_map.index) = 3
    /\ Len(fine_map.index[1]) = 1
    /\ fine_map.index[2] = <<>>
    /\ Len(fine_map.index[3]) = 1
    /\ \A k \in DOMAIN fine_map.entries : fine_map.entries[k].source_line # None
    /\ coarse_map.pc_to_line[2] = 2

\* C10: a mappings string with a token that holds a byte outside the alphabet,
\* or that decodes to a number of integers other than 1, 4 or 5, is rejected
\* by the fine decoder.
C10_MalformedRejected ==
    (stage = "fine_map" /\ wire.version = 3) =>
        LET groups == Split(wire.mappings, SEMI)
            alphabet == { b64chars[i] : i \in 1..Len(b64chars) }
            malformed(tok) ==
                \/ \E i \in 1..Len(tok) : tok[i] \notin alphabet
                \/ Len(base64vlq_decode(tok).val) \notin {1, 4, 5}
        IN (\E g \in 1..Len(groups) :
               /\ groups[g] # <<>>
               /\ \E t \in 1..Len(Split(groups[g], COMMA)) :
                     malformed(Split(groups[g], COMMA)[t]))
           => fine_map.err # NoErr

-----------------------------------------------------------------------------
(* Properties of the FunctionalSourceMapper (SpecFsm) *)

\* C3: each chunk of self * other has the source side of the chunk other
\* returns for the source position of self's chunk, and the target side (line
\* number, text and column span) of self's chunk.
C3_ComposeSides ==
    product.err = NoErr =>
        \A i \in 1..Len(self_mapper.chunks) :
            LET s == self_mapper.chunks[i]
                o == fsm_call(other_mapper, s.source_line_number,
                              s.source_col_bounds[1])
                p == product.chunks[i]
            IN /\ o # None
               /\ p.source_line_number = o[1].source_line_number
               /\ p.source_line = o[1].source_line
               /\ p.source_col_bounds = o[1].source_col_bounds
               /\ p.target_line_number = s.target_line_number
               /\ p.target_line = s.target_line
               /\ p.target_col_bounds = s.target_col_bounds

\* C4: self * other has the target text and the number of chunks of self.
C4_TargetPreserved ==
    product.err = NoErr =>
        /\ fsm_target(product) = fsm_target(self_mapper)
        /\ Len(product.chunks) = Len(self_mapper.chunks)

\* a product of two chunks was composed a second time with a mapper whose
\* target text differs from that of the left operand
C4_Witness ==
    /\ product.err = NoErr
    /\ composed = 1
    /\ Len(product.chunks) = 2
    /\ fsm_target(other_mapper) # fsm_target(self_mapper)

\* C5: every mapper, built by from_chunks or by compositions, has one index
\* pair per chunk, a strictly increasing index, and answers the lookup at
\* (index[i].line, index[i].column - 1) with chunks[i].
C5_MonotonicIndex ==
    \A m \in {self_mapper, other_mapper, product} :
        m.err = NoErr =>
            /\ Len(m.index) = Len(m.chunks)
            /\ \A i \in 1..(Len(m.index) - 1) : TupleLess(m.index[i], m.index[i + 1])
            /\ \A i \in 1..Len(m.index) :
                  fsm_call(m, m.index[i][1], m.index[i][2] - 1) = Some(m.chunks[i])

\* a product of two chunks whose source lines are not in ascending order
C5_Witness ==
    /\ product.err = NoErr
    /\ Len(product.chunks) = 2
    /\ product.chunks[1].source_line_number > product.chunks[2].source_line_number
    /\ fsm_call(product, 1, product.index[2][2] - 1) = Some(product.chunks[2])

-----------------------------------------------------------------------------
(* Properties of SourceMapping (SpecMap) *)

\* every entry constructed directly or produced by from_json
EntriesMade ==
    (IF built # NotRun /\ built.err = NoErr THEN { built.entry[1] } ELSE {})
        \cup (IF fine_map # NotRun /\ fine_map.err = NoErr
              THEN { fine_map.entries[k] : k \in DOMAIN fine_map.entries } ELSE {})

\* C11: an entry carries a name only with a source, and a source line or a
\* source column only with a source; a construction that would break either
\* rule fails.
C11_CoPresence ==
    /\ \A e \in EntriesMade :
          /\ e.name # None => e.source # None
          /\ (e.source_line # None \/ e.source_column # None) => e.source # None
    /\ built # NotRun =>
          LET g == built.given
          IN (\/ (g.source_line # None \/ g.source_column # None) /\ g.source = None
              \/ g.name # None /\ g.source = None)
             => built.err # NoErr

\* C11 as amended: an entry carries a name only with a source, and a source
\* only with both a source line and a source column; a construction with a
\* source but no line or no column, or with a name but no source, fails with
\* TypeError and every other construction is accepted.
C11_CoPresenceOfSource ==
    /\ \A e \in EntriesMade :
          /\ e.name # None => e.source # None
          /\ e.source # None => (e.source_line # None /\ e.source_column # None)
    /\ built # NotRun =>
          LET g == built.given
          IN IF \/ g.source # None /\ (g.source_line = None \/ g.source_column = None)
                \/ g.name # None /\ g.source = None
             THEN built.err = "TypeError" /\ built.entry = None
             ELSE built.err = NoErr /\ built.entry = Some(g)

\* from_json made an entry with a source line and column but no source: the
\* segment's source index is beyond the list of sources
C11_Witness ==
    /\ stage = "fine_map"
    /\ fine_map.err = NoErr
    /\ \E k \in DOMAIN fine_map.entries :
          /\ fine_map.entries[k].source = None
          /\ fine_map.entries[k].source_line # None
          /\ fine_map.entries[k].source_column # None
    /\ \E k \in DOMAIN fine_map.entries : fine_map.entries[k].source # None

-----------------------------------------------------------------------------
(* Properties of the coarse index (SpecIdx) *)

\* C12: get_chunks_with_source fails when the largest mapped line is not
\* below the number of lines of the text; otherwise it returns one chunk per
\* offset, in ascending offset order, pairing the whole text of the mapped
\* line with the whole label of the offset.
C12_ChunksWithSource ==
    stage = "chunks" =>
        LET lines == Split(chunked.teal, NL)
            n == Cardinality(DOMAIN coarse_map.pc_to_line)
            res == chunked.res
        IN IF max_line(coarse_map) >= Len(lines)
           THEN res.err # NoErr /\ res.chunks = <<>>
           ELSE /\ res.err = NoErr
                /\ Len(res.chunks) = n
                /\ \A i \in 1..n :
                      LET line == coarse_map.pc_to_line[i - 1]
                      IN /\ line \in 0..(Len(lines) - 1)
                         /\ res.chunks[i] =
                                Chunk(line, lines[line + 1],
                                      <<0, Len(lines[line + 1])>>,
                                      i - 1, PcLabel(i - 1),
                                      <<0, Len(PcLabel(i - 1))>>)

\* C13: get_line_for_pc(o) = l exactly when o occurs in get_pcs_for_line(l);
\* an offset has at most one line; the list of a line is strictly ascending;
\* an offset or a line that was never decoded is answered with None.
C13_TwoWayIndex ==
    stage = "asked" =>
        LET pcs == asked.pcs_for_line
            offsets == DOMAIN coarse_map.pc_to_line
            lines == { coarse_map.pc_to_line[pc] : pc \in offsets }
            listed(l) == { get_pcs_for_line(coarse_map, l)[1][i] :
                             i \in 1..Len(get_pcs_for_line(coarse_map, l)[1]) }
        IN /\ (asked.line_for_pc = Some(asked.line))
                 <=> (pcs # None /\ \E i \in 1..Len(pcs[1]) : pcs[1][i] = asked.pc)
           /\ Cardinality({ l \in lines : asked.pc \in listed(l) }) <= 1
           /\ pcs # None =>
                 \A i \in 1..(Len(pcs[1]) - 1) : pcs[1][i] < pcs[1][i + 1]
           /\ asked.pc \notin offsets => asked.line_for_pc = None
           /\ asked.pc \in offsets => asked.line_for_pc # None
           /\ asked.line \notin lines => pcs = None
           /\ asked.line \in lines => (pcs # None /\ pcs[1] # <<>>)

\* the line asked for is that of the offset asked for and of another offset,
\* in an index whose lines go down as well as up
C13_Witness ==
    /\ stage = "asked"
    /\ asked.line_for_pc = Some(asked.line)
    /\ Len(asked.pcs_for_line[1]) >= 2
    /\ asked.pcs_for_line[1][1] = asked.pc
    /\ \E pc \in DOMAIN coarse_map.pc_to_line :
          /\ pc + 1 \in DOMAIN coarse_map.pc_to_line
          /\ coarse_map.pc_to_line[pc + 1] < coarse_map.pc_to_line[pc]

-----------------------------------------------------------------------------
(* Properties of re-encoding (SpecMap) *)

\* every token of the mappings string is what _base64vlq_encode writes for
\* the 1, 4 or 5 integers it stands for
Canonical(mappings) ==
    \A g \in 1..Len(Split(mappings, SEMI)) :
        LET group == Split(mappings, SEMI)[g]
        IN group # <<>> =>
              \A t \in 1..Len(Split(group, COMMA)) :
                  LET d == base64vlq_decode(Split(group, COMMA)[t])
                  IN /\ d.err = NoErr
                     /\ Len(d.val) \in {1, 4, 5}
                     /\ base64vlq_encode(d.val) = Split(group, COMMA)[t]

\* a record without sourcesContent, canonically encoded, was decoded with
\* source texts supplied by the caller, and re-encoded
ReEncoded ==
    /\ stage = "encoded"
    /\ wire.sourcesContent = None
    /\ args.sources # <<>>
    /\ Canonical(wire.mappings)

\* C14: the re-encoded record has the mappings string, names, file and
\* sourceRoot of the record, the supplied texts as sourcesContent, and the
\* sources of the record, ["unknown"] when the record lists none.
C14_ReEncodeReproduces ==
    ReEncoded =>
        /\ encoded.mappings = wire.mappings
        /\ encoded.names = wire.names
        /\ encoded.file = wire.file
        /\ encoded.sourceRoot = wire.sourceRoot
        /\ encoded.sourcesContent = Some(args.sources)
        /\ encoded.sources =
              IF wire.sources = <<>> THEN <<"unknown">> ELSE wire.sources

-----------------------------------------------------------------------------
(* Properties of the entry table and the column index (SpecMap) *)

\* C15: in every decoded map the column list of each generated line is
\* strictly ascending, and (l, c) is a key of the entry table exactly when c
\* is in the column list of line l.
C15_IndexConsistent ==
    (fine_map # NotRun /\ fine_map.err = NoErr) =>
        /\ \A g \in 1..Len(fine_map.index) :
              \A i \in 1..(Len(fine_map.index[g]) - 1) :
                  fine_map.index[g][i] < fine_map.index[g][i + 1]
        /\ \A k \in DOMAIN fine_map.entries :
              /\ k[1] + 1 \in 1..Len(fine_map.index)
              /\ \E i \in 1..Len(fine_map.index[k[1] + 1]) :
                    fine_map.index[k[1] + 1][i] = k[2]
        /\ \A g \in 1..Len(fine_map.index) :
              \A i \in 1..Len(fine_map.index[g]) :
                  <<g - 1, fine_map.index[g][i]>> \in DOMAIN fine_map.entries

=============================================================================
